---- MODULE Spec2Model ----
(***************************************************************************)
(* Model of the Slack ingest document (unstructured/ingest/connector/      *)
(* slack.py) and of the e-mail Name element (unstructured/documents/       *)
(* email_elements.py).                                                     *)
(*                                                                         *)
(* One SlackIngestDoc and its staged file are modelled.  Every call of the *)
(* Slack Web API is one step whose outcome (the returned payload, or a     *)
(* SlackApiError) is chosen by the environment.  Strings that the code     *)
(* compares or converts are sequences of decimal digits, so that the       *)
(* string order used by list.sort() and the numeric value used by float()  *)
(* are different things.                                                   *)
(***************************************************************************)
EXTENDS Integers, Sequences, FiniteSets, TLC

\* ------------------------------------------------------------------ bounds
MaxMsgs == 2      \* messages returned by one conversations_history call
MaxPages == 2     \* pages of one reply thread
MaxCalls == 3     \* the per-operation call counter saturates here
MaxIndex == 1     \* index_in_sequence passed to id_to_hash
MaxCleaners == 2  \* cleaners passed to one apply call
MaxChannels == 2  \* entries of config.channels

\* ------------------------------------------------------------- data values
None == [none |-> TRUE]

\* message timestamps as Slack sends them: strings of digits ("99", "100", "250")
Timestamps == { <<9, 9>>, <<1, 0, 0>>, <<2, 5, 0>> }

Texts == { "hi" }

Messages == [ts : Timestamps, text : Texts]

MessageLists == UNION { [1..n -> Messages] : n \in 0..MaxMsgs }

\* what client.conversations_history does: raise SlackApiError, or answer
HistoryOutcomes ==
    { [raised |-> TRUE, messages |-> <<>>] }
        \cup { [raised |-> FALSE, messages |-> ms] : ms \in MessageLists }

\* what client.conversations_replies does for the page after `cur`
RepliesOutcomes(cur) ==
    { [raised |-> TRUE, has_more |-> FALSE, nreplies |-> 0] }
        \cup { [raised |-> FALSE, has_more |-> hm, nreplies |-> 1] :
                 hm \in { b \in BOOLEAN : b => cur + 1 < MaxPages } }

\* --------------------------------------------------------- pure functions
Min(a, b) == IF a < b THEN a ELSE b

\* Python's < on str: lexicographic, a proper prefix is smaller
StrLess(s, t) ==
    \E k \in 1..(Min(Len(s), Len(t)) + 1) :
        /\ \A j \in 1..(k - 1) : s[j] = t[j]
        /\ \/ k <= Len(s) /\ k <= Len(t) /\ s[k] < t[k]
           \/ k = Len(s) + 1 /\ k <= Len(t)

RECURSIVE Insert(_, _)
Insert(x, sorted) ==
    IF sorted = <<>> THEN <<x>>
    ELSE IF StrLess(x, Head(sorted)) THEN <<x>> \o sorted
    ELSE <<Head(sorted)>> \o Insert(x, Tail(sorted))

\* timestamps.sort(): ascending in the order of the elements' own type (str)
RECURSIVE sort(_)
sort(seq) ==
    IF seq = <<>> THEN <<>>
    ELSE Insert(seq[Len(seq)], sort(SubSeq(seq, 1, Len(seq) - 1)))

\* float(s) of a digit string
RECURSIVE float(_)
float(s) ==
    IF s = <<>> THEN 0
    ELSE 10 * float(SubSeq(s, 1, Len(s) - 1)) + s[Len(s)]

\* datetime.fromtimestamp(x).isoformat(): the rendering of instant x
isoformat(x) == [kind |-> "iso", num |-> x]

\* a bool handed back to the caller
PyBool(b) == [kind |-> IF b THEN "True" ELSE "False", num |-> 0]

NoRet == [kind |-> "None", num |-> 0]

SlackFileMeta(created, modified) ==
    [date_created |-> created, date_modified |-> modified]

\* get_file_metadata's computation on the sequence it iterates over.
\* raised = "none": file_meta is assigned `meta`; otherwise the named
\* exception leaves file_meta as it was.
get_file_metadata(messages) ==
    IF \E k \in 1..Len(messages) : "ts" \notin DOMAIN messages[k]
    THEN [raised |-> "TypeError", meta |-> None]
    ELSE LET timestamps == sort([k \in 1..Len(messages) |-> messages[k].ts])
         IN  IF Len(timestamps) > 0
             THEN [raised |-> "none",
                   meta |-> SlackFileMeta(
                                isoformat(float(timestamps[1])),
                                isoformat(float(timestamps[Len(timestamps)])))]
             ELSE [raised |-> "UnboundLocalError", meta |-> None]

\* --------------------------------------------------------- e-mail elements
\* the names bound at module level in email_elements.py
ModuleGlobals ==
    { "hashlib", "uuid", "ABC", "datetime", "Callable", "List", "Union",
      "Element", "NoID", "Text", "NoDatestamp", "EmailElement", "Name",
      "BodyText", "Recipient", "Sender", "Subject", "MetaData",
      "ReceivedInfo", "Attachment" }

\* the datestamp attribute of an element built without a datetime
NoAttr == "no attribute"

Datestamps == { "2023-01-01", "2023-06-30" }

NameStrings == { "from", "to" }

TextStrings == { "alice", "bob" }

\* Name.__init__: name and text are stored; the datestamp attribute is set
\* only when the argument is a datetime
Name_init(name, text, datestamp) ==
    [name |-> name, text |-> text,
     datestamp |-> IF datestamp \in Datestamps THEN datestamp ELSE NoAttr]

Names ==
    { Name_init(n, t, d) :
        n \in NameStrings, t \in TextStrings, d \in Datestamps \cup { "NoDatestamp()" } }

has_datestamp_attr(self) == self.datestamp # NoAttr

\* Name.has_datestamp: membership of the literal "self.datestamp" in the
\* module's globals
has_datestamp(self) == "self.datestamp" \in ModuleGlobals

\* Name.__eq__: "True", "False", or the exception of a missing attribute
Name_eq(self, other) ==
    IF has_datestamp(self)
    THEN IF self.name = other.name /\ self.text = other.text
         THEN IF self.datestamp = NoAttr \/ other.datestamp = NoAttr
              THEN "AttributeError"
              ELSE IF self.datestamp = other.datestamp THEN "True" ELSE "False"
         ELSE "False"
    ELSE IF self.name = other.name /\ self.text = other.text
         THEN "True" ELSE "False"

\* no comparisons among the three elements have been made
NoRel == [aa |-> "unset", ab |-> "unset", ba |-> "unset", bc |-> "unset", ac |-> "unset"]

\* element_id as passed to Name.__init__: a string, or the NoID() default
SuppliedIds == { "id-1" }

\* what str(uuid.uuid4()) may give
Uuids == { "uuid-a", "uuid-b" }

\* Name.__init__: a supplied string is kept, NoID() is replaced by a uuid4
Name_init_id(element_id, uuid) ==
    IF element_id = "NoID()" THEN uuid ELSE element_id

\* metadata.page_number: NoPage is None, otherwise the page
NoPage == 0

PageNumbers == { NoPage, 3 }

\* f"{page_number}"
Render(p) == IF p = NoPage THEN "None" ELSE ToString(p)

Name_id_to_hash_no_index(text, page, index) ==
    "sha256:" \o text \o Render(page)

\* Name.id_to_hash: the first 32 hex digits of the SHA256 of
\* f"{text}{page_number}{index_in_sequence}"; the digest is kept symbolic,
\* one value per hashed string
Name_id_to_hash(text, page, index) ==
    "sha256:" \o text \o Render(page) \o ToString(index)

\* ----------------------------------------------------------------- cleaners
\* a Python value passed between cleaners: its type and its text
Str(v) == [type |-> "str", v |-> v]

NoneValue == [type |-> "NoneType", v |-> "None"]

Upper(v) ==
    CASE v = "alice" -> "ALICE"
      [] v = "bob" -> "BOB"
      [] v = "from" -> "FROM"
      [] v = "to" -> "TO"
      [] OTHER -> v

Lower(v) ==
    CASE v = "ALICE" -> "alice"
      [] v = "BOB" -> "bob"
      [] v = "FROM" -> "from"
      [] v = "TO" -> "to"
      [] OTHER -> v

\* callables a caller may pass to apply: str.upper, str.lower, str, and
\* lambda s: s if len(s) > 3 else None
Cleaners == { "upper", "lower", "str", "long_or_none" }

\* those that map every string to a string
StrCleaners == { "upper", "lower", "str" }

CleanerSeqs == UNION { [1..n -> Cleaners] : n \in 0..MaxCleaners }

\* cleaner(x): the value returned, or the TypeError of the callable itself
Call(cleaner, x) ==
    IF cleaner = "str" THEN [raised |-> FALSE, val |-> Str(x.v)]
    ELSE IF x.type # "str" THEN [raised |-> TRUE, val |-> x]
    ELSE IF cleaner = "upper" THEN [raised |-> FALSE, val |-> Str(Upper(x.v))]
    ELSE IF cleaner = "lower" THEN [raised |-> FALSE, val |-> Str(Lower(x.v))]
    ELSE [raised |-> FALSE, val |-> IF Len(x.v) > 3 THEN x ELSE NoneValue]

RECURSIVE ApplyLoop_last_first(_, _, _)
ApplyLoop_last_first(cleaners, cleaned_text, cleaned_name) ==
    IF cleaners = <<>>
    THEN [raised |-> FALSE, text |-> cleaned_text, name |-> cleaned_name]
    ELSE LET t == Call(cleaners[Len(cleaners)], cleaned_text)
             n == Call(cleaners[Len(cleaners)], cleaned_name)
         IN  IF t.raised \/ n.raised
             THEN [raised |-> TRUE, text |-> cleaned_text, name |-> cleaned_name]
             ELSE ApplyLoop_last_first(SubSeq(cleaners, 1, Len(cleaners) - 1),
                                       t.val, n.val)

\* the loop of Name.apply: each cleaner in turn on cleaned_text, then on
\* cleaned_name
RECURSIVE ApplyLoop(_, _, _)
ApplyLoop(cleaners, cleaned_text, cleaned_name) ==
    IF cleaners = <<>>
    THEN [raised |-> FALSE, text |-> cleaned_text, name |-> cleaned_name]
    ELSE LET t == Call(Head(cleaners), cleaned_text)
             n == Call(Head(cleaners), cleaned_name)
         IN  IF t.raised \/ n.raised
             THEN [raised |-> TRUE, text |-> cleaned_text, name |-> cleaned_name]
             ELSE ApplyLoop(Tail(cleaners), t.val, n.val)

Name_apply_partial(self, cleaners) ==
    LET r == ApplyLoop(cleaners, Str(self.text), Str(self.name))
    IN  IF r.raised
        THEN [raised |-> "TypeError", text |-> self.text, name |-> self.name]
        ELSE IF r.text.type # "str"
        THEN [raised |-> "ValueError", text |-> self.text, name |-> self.name]
        ELSE IF r.name.type # "str"
        THEN [raised |-> "ValueError", text |-> r.text.v, name |-> self.name]
        ELSE [raised |-> "none", text |-> r.text.v, name |-> r.name.v]

\* Name.apply: how the call ends, and text and name after it
Name_apply(self, cleaners) ==
    LET r == ApplyLoop(cleaners, Str(self.text), Str(self.name))
    IN  IF r.raised
        THEN [raised |-> "TypeError", text |-> self.text, name |-> self.name]
        ELSE IF r.text.type # "str" \/ r.name.type # "str"
        THEN [raised |-> "ValueError", text |-> self.text, name |-> self.name]
        ELSE [raised |-> "none", text |-> r.text.v, name |-> r.name.v]

\* ------------------------------------------------------------ configuration
\* DATE_FORMATS
DATE_FORMATS == << "%Y-%m-%d", "%Y-%m-%dT%H:%M:%S", "%Y-%m-%dT%H:%M:%S%z" >>

\* oldest / latest not given: None or the empty string, both falsy
NoDate == ""

\* values a caller may pass as oldest or latest
DateArgs ==
    { NoDate, "2023-01-01", "2023-01-01T10:00:00", "2023-01-01T10:00:00+0000",
      "01/02/2023" }

\* datetime.strptime(date, format) succeeds
Parses(date, format) ==
    \/ date = "2023-01-01" /\ format = "%Y-%m-%d"
    \/ date = "2023-01-01T10:00:00" /\ format = "%Y-%m-%dT%H:%M:%S"
    \/ date = "2023-01-01T10:00:00+0000" /\ format = "%Y-%m-%dT%H:%M:%S%z"

\* unstructured.utils.validate_date_args, whose result validate_inputs
\* stores as the validity of the bound: the date matches an accepted format
validate_date_args(date) ==
    \E k \in 1..Len(DATE_FORMATS) : Parses(date, DATE_FORMATS[k])

\* SimpleSlackConfig.validate_inputs: <<oldest_valid, latest_valid>>
validate_inputs(oldest, latest) ==
    << IF oldest # NoDate THEN validate_date_args(oldest) ELSE TRUE,
       IF latest # NoDate THEN validate_date_args(latest) ELSE TRUE >>

\* SimpleSlackConfig.__post_init__: how construction ends
post_init(oldest, latest) ==
    LET v == validate_inputs(oldest, latest)
    IN  IF ~v[1] /\ ~v[2] THEN "ValueError" ELSE "ok"

\* channel ids a caller may configure
ChannelIds == { "C1", "C2" }

ChannelLists == UNION { [1..n -> ChannelIds] : n \in 0..MaxChannels }

\* standard_config.download_dir
DownloadDir == "downloads"

\* SlackIngestDoc._tmp_download_file: download_dir / (channel + ".xml")
tmp_download_file(doc) == DownloadDir \o "/" \o doc.channel \o ".xml"

\* a configuration that has not been constructed
NoConfig == [channels |-> <<>>, oldest |-> "", latest |-> "", built |-> FALSE]

\* ------------------------------------------------------------------ state
VARIABLES
    file_exists,         \* SlackIngestDoc.file_exists
    file_meta,           \* SlackIngestDoc.file_meta (None or a SlackFileMeta)
    staged,              \* the file at _tmp_download_file()
    preserve_downloads,  \* the retain-for-debugging configuration
    pc,                  \* position of the running operation
    op,                  \* the operation running or last run
    outcome,             \* how the last operation ended for its caller
    ret,                 \* the value the last operation returned
    calls,               \* source API calls issued by the operation
    failed,              \* the source call that raised during the operation
    printed,             \* parity of the error lines printed by get_file
    probed,              \* history: some conversations_history call has answered
    result,              \* get_file: result["messages"]
    i,                   \* get_file: index of the message being expanded
    cursor,              \* get_file: reply cursor (0 is None)
    root,                \* get_file: the XML tree built so far
    stage,               \* the document's place in the processing pipeline
    elem,                \* a Name element
    other,               \* the element it is compared with
    eq_ret,              \* what elem == other gave
    third,               \* a third Name element
    rel,                 \* the comparisons among elem, other and third
    id,                  \* elem.id
    page_number,         \* elem.metadata.page_number
    nop,                 \* the operation last run on elem
    applied,             \* apply: the cleaners passed in
    apply_out,           \* apply: how the call ended
    hash_index,          \* id_to_hash: index_in_sequence
    id_ret,              \* id_to_hash: the value returned
    written,             \* history: the staged file was written by this document
    config,              \* the SimpleSlackConfig under construction
    config_out,          \* how its construction ended
    ingest_docs          \* what get_ingest_docs returned

docvars == <<file_exists, file_meta, staged, preserve_downloads, probed, written>>
callvars == <<pc, op, outcome, ret, calls, failed, printed>>
locals == <<result, i, cursor, root>>
slackvars == <<docvars, callvars, locals, stage>>
namevars == <<elem, other, eq_ret, third, rel>>
elemvars == <<id, page_number, nop, applied, apply_out, hash_index, id_ret>>
connvars == <<config, config_out, ingest_docs>>
restvars == <<namevars, elemvars, connvars>>
vars == <<slackvars, restvars>>

NoFile == [is_file |-> FALSE, content |-> <<>>]

\* a file left in the download directory by an earlier run
EarlierFile == [is_file |-> TRUE, content |-> << [text |-> "hi", replies |-> 1] >>]

\* SlackIngestDoc as get_ingest_docs builds it
InitDoc ==
    /\ file_exists = FALSE
    /\ file_meta = None
    /\ pc = "idle"
    /\ op = "init"
    /\ outcome = "none"
    /\ ret = NoRet
    /\ calls = 0
    /\ failed = "none"
    /\ printed = 0
    /\ probed = FALSE
    /\ written = FALSE
    /\ result = <<>>
    /\ i = 0
    /\ cursor = 0
    /\ root = <<>>
    /\ stage = "new"

InitElems ==
    /\ elem = Name_init("from", "alice", "NoDatestamp()")
    /\ other = Name_init("from", "alice", "NoDatestamp()")
    /\ eq_ret = "unset"
    /\ third = Name_init("from", "alice", "NoDatestamp()")
    /\ rel = NoRel

\* the element's identity and the record of the last call on it
InitCalls ==
    /\ nop = "init"
    /\ applied = <<>>
    /\ apply_out = "unset"
    /\ hash_index = 0
    /\ id_ret = "unset"

InitIdentity ==
    /\ id = Name_init_id("id-1", "uuid-a")
    /\ page_number = NoPage
    /\ InitCalls

\* no configuration has been constructed, no documents enumerated
InitConn ==
    /\ config = NoConfig
    /\ config_out = "unset"
    /\ ingest_docs = <<>>

\* a fresh document, in a download directory that may hold the channel's
\* file from an earlier run
Init ==
    /\ InitDoc
    /\ staged \in { NoFile, EarlierFile }
    /\ preserve_downloads \in BOOLEAN
    /\ InitElems
    /\ InitIdentity
    /\ InitConn

\* ------------------------------------------------------------- operations
Bump(n) == Min(n + 1, MaxCalls)

\* BaseIngestDoc.skip_if_file_exists: the decorated routine is not run when
\* the staging file is already on disk
skip_if_file_exists == staged.is_file

fetch_messages_stale(resp) ==
    IF resp.raised
    THEN [raised |-> TRUE, file_exists |-> file_exists]
    ELSE [raised |-> FALSE, file_exists |-> TRUE]

\* _fetch_messages, given what conversations_history does: on SlackApiError
\* file_exists becomes False and the error is raised again, otherwise
\* file_exists becomes True and the response is returned
fetch_messages(resp) ==
    IF resp.raised
    THEN [raised |-> TRUE, file_exists |-> FALSE]
    ELSE [raised |-> FALSE, file_exists |-> TRUE]

\* get_file_metadata() without messages: _fetch_messages, then the
\* computation on what it returned.  It returns the response that get_file
\* subscripts with ["messages"], so the iteration is over the response
\* itself and its items are not message dicts: m["ts"] is no timestamp.
get_file_metadata_probe(resp) ==
    LET f == fetch_messages(resp)
    IN  IF f.raised
        THEN [file_exists |-> f.file_exists, file_meta |-> file_meta,
              raised |-> "SlackApiError"]
        ELSE LET r == get_file_metadata(<<resp>>)
             IN  [file_exists |-> f.file_exists,
                  file_meta |-> IF r.raised = "none" THEN r.meta ELSE file_meta,
                  raised |-> r.raised]

\* the three properties share their shape: probe when `probe` holds, then
\* hand back field `field` of the document
Property(name, probe, field) ==
    /\ pc = "idle"
    /\ \E resp \in HistoryOutcomes :
         LET p == IF probe
                  THEN get_file_metadata_probe(resp)
                  ELSE [file_exists |-> file_exists, file_meta |-> file_meta,
                        raised |-> "none"]
         IN  /\ file_exists' = p.file_exists
             /\ file_meta' = p.file_meta
             /\ calls' = IF probe THEN 1 ELSE 0
             /\ failed' = IF probe /\ resp.raised THEN "history" ELSE "none"
             /\ probed' = (probed \/ (probe /\ ~resp.raised))
             /\ outcome' = IF p.raised = "none" THEN "ok" ELSE p.raised
             /\ ret' = IF p.raised # "none" THEN NoRet
                       ELSE IF field = "file_exists" THEN PyBool(p.file_exists)
                       ELSE p.file_meta[field]
    /\ op' = name
    /\ pc' = "idle"
    /\ UNCHANGED <<staged, preserve_downloads, written, printed, locals>>

date_created_reprobe == Property("date_created", TRUE, "date_created")

date_created == Property("date_created", file_meta = None, "date_created")

date_modified == Property("date_modified", file_meta = None, "date_modified")

exists == Property("exists", file_exists \notin BOOLEAN, "file_exists")

\* the <message><text> element opened for message m
MessageElem(m) == [text |-> m.text, replies |-> 0]

\* the body of get_file up to and including the conversations_history call
get_file_body ==
    \E resp \in HistoryOutcomes :
        LET f == fetch_messages(resp)
        IN  /\ calls' = 1
            /\ ret' = NoRet
            /\ file_exists' = f.file_exists
            /\ probed' = (probed \/ ~f.raised)
            /\ IF f.raised
               THEN /\ failed' = "history"
                    /\ outcome' = "SlackApiError"
                    /\ pc' = "idle"
                    /\ UNCHANGED locals
               ELSE /\ failed' = "none"
                    /\ outcome' = "running"
                    /\ result' = resp.messages
                    /\ cursor' = 0
                    /\ IF resp.messages = <<>>
                       THEN /\ pc' = "metadata"
                            /\ i' = 0
                            /\ root' = <<>>
                       ELSE /\ pc' = "replies"
                            /\ i' = 1
                            /\ root' = << MessageElem(resp.messages[1]) >>
            /\ UNCHANGED <<file_meta, staged, preserve_downloads, written, printed>>

get_file_undecorated ==
    /\ pc = "idle"
    /\ op' = "get_file"
    /\ get_file_body

\* get_file, behind its skip_if_file_exists decorator
get_file ==
    /\ pc = "idle"
    /\ op' = "get_file"
    /\ IF skip_if_file_exists
       THEN /\ outcome' = "skipped"
            /\ calls' = 0
            /\ failed' = "none"
            /\ pc' = "idle"
            /\ ret' = NoRet
            /\ UNCHANGED <<docvars, printed, locals>>
       ELSE get_file_body

\* one pass of the `while True` loop: a conversations_replies call
conversations_replies ==
    /\ pc = "replies"
    /\ \E r \in RepliesOutcomes(cursor) :
         /\ calls' = Bump(calls)
         /\ IF r.raised
            THEN \* except SlackApiError: print, and go round the loop again
                 /\ failed' = "replies"
                 /\ printed' = 1 - printed
                 /\ UNCHANGED <<pc, locals>>
            ELSE /\ failed' = failed
                 /\ printed' = printed
                 /\ LET joined == [root EXCEPT ![i].replies = @ + r.nreplies]
                    IN  IF r.has_more
                        THEN /\ cursor' = cursor + 1
                             /\ root' = joined
                             /\ UNCHANGED <<pc, i, result>>
                        ELSE IF i < Len(result)
                        THEN /\ i' = i + 1
                             /\ cursor' = 0
                             /\ root' = Append(joined, MessageElem(result[i + 1]))
                             /\ UNCHANGED <<pc, result>>
                        ELSE /\ pc' = "metadata"
                             /\ root' = joined
                             /\ UNCHANGED <<i, cursor, result>>
    /\ UNCHANGED <<docvars, op, outcome, ret>>

get_file_write_no_meta ==
    /\ pc = "metadata"
    /\ staged' = [is_file |-> TRUE, content |-> root]
    /\ written' = TRUE
    /\ outcome' = "ok"
    /\ pc' = "idle"
    /\ result' = <<>>
    /\ i' = 0
    /\ cursor' = 0
    /\ root' = <<>>
    /\ UNCHANGED <<file_exists, file_meta, preserve_downloads, probed, op, ret,
                   calls, failed, printed>>

\* the end of get_file: get_file_metadata(result["messages"]), tree.write
get_file_write ==
    /\ pc = "metadata"
    /\ LET r == get_file_metadata(result)
       IN  IF r.raised = "none"
           THEN /\ file_meta' = r.meta
                /\ staged' = [is_file |-> TRUE, content |-> root]
                /\ written' = TRUE
                /\ outcome' = "ok"
           ELSE /\ outcome' = r.raised
                /\ UNCHANGED <<file_meta, staged, written>>
    /\ pc' = "idle"
    /\ result' = <<>>
    /\ i' = 0
    /\ cursor' = 0
    /\ root' = <<>>
    /\ UNCHANGED <<file_exists, preserve_downloads, probed, op, ret, calls, failed,
                   printed>>

\* IngestDocCleanupMixin.cleanup_file: delete the staged file if present,
\* unless downloads are retained
cleanup_file ==
    /\ pc = "idle"
    /\ op' = "cleanup_file"
    /\ outcome' = "ok"
    /\ ret' = NoRet
    /\ calls' = 0
    /\ failed' = "none"
    /\ staged' = IF preserve_downloads THEN staged ELSE NoFile
    /\ written' = (preserve_downloads /\ written)
    /\ UNCHANGED <<file_exists, file_meta, preserve_downloads, probed, pc, printed,
                   locals>>

\* the document's methods, called in any order by its owner
Next ==
    \/ exists /\ UNCHANGED <<stage, restvars>>
    \/ date_created /\ UNCHANGED <<stage, restvars>>
    \/ date_modified /\ UNCHANGED <<stage, restvars>>
    \/ get_file /\ UNCHANGED <<stage, restvars>>
    \/ conversations_replies /\ UNCHANGED <<stage, restvars>>
    \/ get_file_write /\ UNCHANGED <<stage, restvars>>
    \/ cleanup_file /\ UNCHANGED <<stage, restvars>>

Spec == Init /\ [][Next]_vars

\* a get_file call that has started keeps running: its next API call or
\* its final write is not put off for ever
SpecFetch ==
    /\ Init
    /\ [][Next]_vars
    /\ WF_vars(conversations_replies /\ UNCHANGED <<stage, restvars>>)
    /\ WF_vars(get_file_write /\ UNCHANGED <<stage, restvars>>)

\* ---------------------------------------------------- processing pipeline
\* One processing attempt on the document, as its owner runs it: fetch,
\* partition, and cleanup once the attempt has ended, however it ended.
Ended == { "fetch_failed", "processed", "parse_failed" }

Attempt ==
    /\ stage = "new"
    /\ get_file
    /\ stage' = "fetching"

FetchReplies ==
    /\ stage = "fetching"
    /\ conversations_replies
    /\ UNCHANGED stage

FetchWrite ==
    /\ stage = "fetching"
    /\ get_file_write
    /\ UNCHANGED stage

FetchReturned ==
    /\ stage = "fetching"
    /\ pc = "idle"
    /\ stage' = IF outcome \in { "ok", "skipped" } THEN "fetched" ELSE "fetch_failed"
    /\ UNCHANGED <<docvars, callvars, locals>>

\* downstream parsing of the staged file succeeds or fails
Partition ==
    /\ stage = "fetched"
    /\ \E parsed \in BOOLEAN :
         stage' = IF parsed THEN "processed" ELSE "parse_failed"
    /\ UNCHANGED <<docvars, callvars, locals>>

ConnectorCleanup_on_success ==
    /\ stage = "processed"
    /\ cleanup_file
    /\ stage' = "cleaned"

ConnectorCleanup ==
    /\ stage \in Ended
    /\ cleanup_file
    /\ stage' = "cleaned"

NextLifecycle ==
    \/ Attempt /\ UNCHANGED restvars
    \/ FetchReplies /\ UNCHANGED restvars
    \/ FetchWrite /\ UNCHANGED restvars
    \/ FetchReturned /\ UNCHANGED restvars
    \/ Partition /\ UNCHANGED restvars
    \/ ConnectorCleanup /\ UNCHANGED restvars

\* the owner runs cleanup in the same control flow as the attempt, so a
\* cleanup that is due is not postponed for ever
SpecLifecycle ==
    Init /\ [][NextLifecycle]_vars /\ WF_vars(ConnectorCleanup /\ UNCHANGED restvars)

\* ------------------------------------------------- comparing Name elements
InitName ==
    /\ InitDoc
    /\ staged = NoFile
    /\ preserve_downloads = FALSE
    /\ elem \in Names
    /\ other \in Names
    /\ eq_ret = "unset"
    /\ third \in Names
    /\ rel = NoRel
    /\ InitIdentity
    /\ InitConn

\* two elements are constructed
Construct ==
    /\ \E n \in NameStrings, t \in TextStrings, d \in Datestamps \cup { "NoDatestamp()" } :
         elem' = Name_init(n, t, d)
    /\ \E n \in NameStrings, t \in TextStrings, d \in Datestamps \cup { "NoDatestamp()" } :
         other' = Name_init(n, t, d)
    /\ eq_ret' = "unset"
    /\ rel' = NoRel
    /\ UNCHANGED <<third, slackvars, elemvars, connvars>>

\* elem == other is evaluated
Compare ==
    /\ eq_ret' = Name_eq(elem, other)
    /\ UNCHANGED <<elem, other, third, rel, slackvars, elemvars, connvars>>

\* the comparisons among the three elements are evaluated
CompareAll ==
    /\ rel' = [aa |-> Name_eq(elem, elem),
               ab |-> Name_eq(elem, other),
               ba |-> Name_eq(other, elem),
               bc |-> Name_eq(other, third),
               ac |-> Name_eq(elem, third)]
    /\ UNCHANGED <<elem, other, third, eq_ret, slackvars, elemvars, connvars>>

NextName ==
    \/ Construct
    \/ Compare
    \/ CompareAll

SpecName == InitName /\ [][NextName]_vars

\* ------------------------------------------- operations on one Name element
InitElem ==
    /\ InitDoc
    /\ staged = NoFile
    /\ preserve_downloads = FALSE
    /\ elem \in { Name_init(n, t, "NoDatestamp()") : n \in NameStrings, t \in TextStrings }
    /\ other = Name_init("from", "alice", "NoDatestamp()")
    /\ third = Name_init("from", "alice", "NoDatestamp()")
    /\ eq_ret = "unset"
    /\ rel = NoRel
    /\ id \in { Name_init_id(e, u) : e \in SuppliedIds \cup { "NoID()" }, u \in Uuids }
    /\ page_number = NoPage
    /\ InitCalls
    /\ InitConn

\* Name(name, text, element_id=...)
NewName ==
    /\ \E n \in NameStrings, t \in TextStrings :
         elem' = Name_init(n, t, "NoDatestamp()")
    /\ \E e \in SuppliedIds \cup { "NoID()" }, u \in Uuids :
         id' = Name_init_id(e, u)
    /\ page_number' = NoPage
    /\ nop' = "init"
    /\ applied' = <<>>
    /\ apply_out' = "unset"
    /\ hash_index' = 0
    /\ id_ret' = "unset"
    /\ UNCHANGED <<other, third, eq_ret, rel, slackvars, connvars>>

\* the partitioner records the page the element was found on
assign_page ==
    /\ \E p \in PageNumbers : page_number' = p
    /\ nop' = "assign_page"
    /\ UNCHANGED <<elem, id, applied, apply_out, hash_index, id_ret>>
    /\ UNCHANGED <<other, third, eq_ret, rel, slackvars, connvars>>

\* elem.id_to_hash(index)
id_to_hash(index) ==
    /\ id' = Name_id_to_hash(elem.text, page_number, index)
    /\ id_ret' = id'
    /\ hash_index' = index
    /\ nop' = "id_to_hash"
    /\ applied' = <<>>
    /\ apply_out' = "unset"
    /\ UNCHANGED <<elem, page_number>>
    /\ UNCHANGED <<other, third, eq_ret, rel, slackvars, connvars>>

apply_rehash(cleaners) ==
    /\ LET r == Name_apply(elem, cleaners)
       IN  /\ elem' = [elem EXCEPT !.text = r.text, !.name = r.name]
           /\ apply_out' = IF r.raised = "none" THEN "ok" ELSE r.raised
           /\ id' = Name_id_to_hash(r.text, page_number, hash_index)
    /\ applied' = cleaners
    /\ nop' = "apply"
    /\ hash_index' = 0
    /\ id_ret' = "unset"
    /\ UNCHANGED page_number
    /\ UNCHANGED <<other, third, eq_ret, rel, slackvars, connvars>>

\* elem.apply(*cleaners)
apply(cleaners) ==
    /\ LET r == Name_apply(elem, cleaners)
       IN  /\ elem' = [elem EXCEPT !.text = r.text, !.name = r.name]
           /\ apply_out' = IF r.raised = "none" THEN "ok" ELSE r.raised
    /\ applied' = cleaners
    /\ nop' = "apply"
    /\ hash_index' = 0
    /\ id_ret' = "unset"
    /\ UNCHANGED <<id, page_number>>
    /\ UNCHANGED <<other, third, eq_ret, rel, slackvars, connvars>>

NextElem ==
    \/ NewName
    \/ assign_page
    \/ \E index \in 0..MaxIndex : id_to_hash(index)
    \/ \E cleaners \in CleanerSeqs : apply(cleaners)

SpecElem == InitElem /\ [][NextElem]_vars

\* ------------------------------------------------- configuring a connector
\* SimpleSlackConfig(channels, token, oldest, latest)
SimpleSlackConfig ==
    /\ \E channels \in ChannelLists, oldest \in DateArgs, latest \in DateArgs :
         /\ config_out' = post_init(oldest, latest)
         /\ config' = [channels |-> channels, oldest |-> oldest,
                       latest |-> latest, built |-> config_out' = "ok"]
    /\ ingest_docs' = <<>>
    /\ UNCHANGED <<slackvars, namevars, elemvars>>

\* SlackConnector.get_ingest_docs: one fresh document per configured channel
get_ingest_docs ==
    /\ config.built
    /\ ingest_docs' = [k \in 1..Len(config.channels) |->
                         [channel |-> config.channels[k],
                          oldest |-> config.oldest,
                          latest |-> config.latest,
                          file_exists |-> FALSE,
                          file_meta |-> None]]
    /\ config_out' = "enumerated"
    /\ UNCHANGED <<config, slackvars, namevars, elemvars>>

NextConn ==
    \/ SimpleSlackConfig
    \/ get_ingest_docs

SpecConn == Init /\ [][NextConn]_vars

\* ------------------------------------------------------------------ claims
Getters == { "exists", "date_created", "date_modified" }

\* the value a getter hands back in the current state
Answer(name) ==
    IF name = "exists" THEN PyBool(file_exists)
    ELSE IF name = "date_created" THEN file_meta.date_created
    ELSE file_meta.date_modified

\* C1: whenever get_file is called while the staged file exists, the call
\* ends at once, has issued no source API call, and the staged file and the
\* document are what they were.
C1_IdempotentFetch ==
    [][(pc = "idle" /\ op' = "get_file" /\ staged.is_file)
          => /\ pc' = "idle"
             /\ calls' = 0
             /\ staged' = staged
             /\ outcome' = "skipped"]_vars

C1_Witness ==
    /\ op = "get_file"
    /\ outcome = "skipped"
    /\ staged.is_file
    /\ calls = 0

\* C2: when get_file has ended because its conversations_history call
\* raised, the caller has the SlackApiError, file_exists is False and there
\* is no staged file.
C2_FailedFetchLeavesNothing ==
    (op = "get_file" /\ pc = "idle" /\ failed = "history")
        => /\ outcome = "SlackApiError"
           /\ file_exists = FALSE
           /\ ~staged.is_file

\* a failed fetch on a document that an earlier fetch had marked present
C2_Witness ==
    /\ op = "get_file"
    /\ outcome = "SlackApiError"
    /\ failed = "history"
    /\ file_meta # None
    /\ file_exists = FALSE

\* C3 (as claimed): once a source call has raised during an operation, the
\* operation is over and its caller has the SlackApiError; nothing further
\* is issued.
C3_ErrorsPropagateNoRetry ==
    failed # "none" => (pc = "idle" /\ outcome = "SlackApiError")

\* C5 (as claimed): exists on a document on which nothing has run yet
\* issues a probe, and metadata is populated when that call returns.
C5_ExistsProbesWhenUnknown ==
    [][(pc = "idle" /\ op = "init" /\ op' = "exists")
          => /\ calls' >= 1
             /\ (outcome' = "ok" => file_meta' # None)]_vars

\* C6: with file_meta populated, a call of exists, date_created or
\* date_modified issues no source call, changes neither file_meta nor
\* file_exists, and returns the stored value - hence the same value on
\* every repetition.
C6_NoReprobe ==
    [][(pc = "idle" /\ file_meta # None /\ op' \in Getters)
          => /\ calls' = 0
             /\ outcome' = "ok"
             /\ file_meta' = file_meta
             /\ file_exists' = file_exists
             /\ ret' = Answer(op')]_vars

C6_Witness ==
    /\ file_meta # None
    /\ op = "date_created"
    /\ outcome = "ok"
    /\ calls = 0
    /\ ret = file_meta.date_created

\* C7 (as claimed): once file_meta is set, no step changes it.
C7_MetaNeverOverwritten ==
    [][file_meta # None => file_meta' = file_meta]_vars

\* C8 (as claimed): between operations, file_meta is populated exactly when
\* some fetch or probe has obtained the channel's history, and a populated
\* file_meta carries both dates.
C8_MetaIffFetched ==
    pc = "idle" =>
        /\ (file_meta # None) <=> probed
        /\ file_meta # None =>
             /\ file_meta.date_created.kind = "iso"
             /\ file_meta.date_modified.kind = "iso"

\* numeric value of the timestamps of a message list
Values(msgs) == { float(msgs[k].ts) : k \in 1..Len(msgs) }

Least(S) == CHOOSE x \in S : \A y \in S : x <= y

Greatest(S) == CHOOSE x \in S : \A y \in S : x >= y

\* C9 (as claimed): for a non-empty message list, get_file_metadata sets
\* date_created from the numerically smallest timestamp and date_modified
\* from the numerically largest.
C9_MetaIsNumericWindow ==
    [][(pc = "metadata" /\ result # <<>>)
          => file_meta' = SlackFileMeta(isoformat(Least(Values(result))),
                                        isoformat(Greatest(Values(result))))]_vars

C10_EqualityUsesDatestamps ==
    eq_ret # "unset" =>
        ((eq_ret = "True") <=>
            /\ elem.name = other.name
            /\ elem.text = other.text
            /\ (elem.datestamp # NoAttr /\ other.datestamp # NoAttr)
                  => elem.datestamp = other.datestamp)

\* the digest of f"{text}{page_number}{index}"
Fingerprint(text, page, index) ==
    "sha256:" \o text \o (IF page = NoPage THEN "None" ELSE ToString(page))
              \o ToString(index)

\* C11: every id_to_hash(index) call returns the fingerprint of the
\* element's (text, page_number, index), whatever its id was, and stores it
\* as the id; a repetition with nothing changed in between returns the same
\* value again.
C11_DeterministicIdentity ==
    /\ [][nop' = "id_to_hash" =>
             /\ id_ret' = Fingerprint(elem.text, page_number, hash_index')
             /\ id' = id_ret']_vars
    /\ [][(nop = "id_to_hash" /\ nop' = "id_to_hash" /\ hash_index' = hash_index)
             => id_ret' = id_ret]_vars

\* an element fingerprinted on a known page at a later position
C11_Witness ==
    /\ nop = "id_to_hash"
    /\ hash_index = 1
    /\ page_number = 3
    /\ id = id_ret
    /\ id = Fingerprint(elem.text, 3, 1)

RECURSIVE ReturnsNonString(_, _)
ReturnsNonString(cleaners, x) ==
    IF cleaners = <<>> THEN FALSE
    ELSE LET r == Call(Head(cleaners), x)
         IN  IF r.raised THEN FALSE
             ELSE r.val.type # "str" \/ ReturnsNonString(Tail(cleaners), r.val)

\* C13 (as claimed): an apply call in which some cleaner, at any position,
\* returns a non-string for text or for name ends with the ValueError of
\* the cleaner contract.
C13_NonStringAnywhereFails ==
    [][(nop' = "apply" /\ (\/ ReturnsNonString(applied', Str(elem.text))
                           \/ ReturnsNonString(applied', Str(elem.name))))
          => apply_out' = "ValueError"]_vars

\* C14: an apply call that fails, with the ValueError of the contract or
\* with an error of a cleaner, leaves text and name as they were.
C14_FailedApplyChangesNothing ==
    [][(nop' = "apply" /\ apply_out' # "ok")
          => (elem'.text = elem.text /\ elem'.name = elem.name)]_vars

\* a failed call in which the cleaned text was a string and the name was not
C14_Witness ==
    /\ nop = "apply"
    /\ apply_out = "ValueError"
    /\ applied = << "upper", "long_or_none" >>
    /\ elem.text = "alice"
    /\ elem.name = "to"

\* the string-to-string cleaners as functions
StrFn(cleaner, v) ==
    IF cleaner = "upper" THEN Upper(v)
    ELSE IF cleaner = "lower" THEN Lower(v)
    ELSE v

\* cn(...c1(v)...), built from the outermost transform inwards
RECURSIVE Composed(_, _)
Composed(cleaners, v) ==
    IF cleaners = <<>> THEN v
    ELSE StrFn(cleaners[Len(cleaners)],
               Composed(SubSeq(cleaners, 1, Len(cleaners) - 1), v))

\* C15: an apply call with string-to-string cleaners c1..cn succeeds and
\* sets text to cn(...c1(text)) and name to cn(...c1(name)); with no
\* cleaners both stay as they were.
C15_ApplyComposesInOrder ==
    [][(nop' = "apply" /\ \A k \in 1..Len(applied') : applied'[k] \in StrCleaners)
          => /\ apply_out' = "ok"
             /\ elem'.text = Composed(applied', elem.text)
             /\ elem'.name = Composed(applied', elem.name)]_vars

\* two cleaners that do not commute have been applied
C15_Witness ==
    /\ nop = "apply"
    /\ apply_out = "ok"
    /\ applied = << "upper", "lower" >>
    /\ elem.text = "alice"
    /\ elem.name = "from"

\* a bound that was supplied and matches none of the accepted formats
Malformed(date) ==
    /\ date # NoDate
    /\ \A k \in 1..Len(DATE_FORMATS) : ~Parses(date, DATE_FORMATS[k])

C17_OneDocPerChannelDistinctPaths ==
    config_out = "enumerated" =>
        /\ Len(ingest_docs) = Len(config.channels)
        /\ \A j, k \in 1..Len(ingest_docs) :
             j # k => tmp_download_file(ingest_docs[j]) # tmp_download_file(ingest_docs[k])

\* C18 (as claimed): every get_file call that has started comes to an end.
C18_GetFileTerminates == (pc # "idle") ~> (pc = "idle")

C20_EqualityIsEquivalence ==
    rel # NoRel =>
        /\ rel.aa = "True"
        /\ (rel.ab = "True") <=> (rel.ba = "True")
        /\ (rel.ab = "True" /\ rel.bc = "True") => rel.ac = "True"

\* three equal elements, with and without datestamps
C20_Witness ==
    /\ rel.ab = "True"
    /\ rel.bc = "True"
    /\ rel.ac = "True"
    /\ elem.datestamp # NoAttr
    /\ other.datestamp = NoAttr
    /\ third.datestamp \notin { NoAttr, elem.datestamp }

====
